---- MODULE Spec2Model ----
(***************************************************************************)
(* News-Summarizer (Flask application, src/app.py) and its sentiment       *)
(* adapter (src/services/sentiment_analyzer.py).                           *)
(*                                                                         *)
(* Strings are sequences of one-character strings, so that slicing,        *)
(* lower-casing and pattern matching are computed character by character.  *)
(* Floats in [0,1] (classifier scores) are written in thousandths.         *)
(***************************************************************************)
EXTENDS Integers, Sequences, FiniteSets, Bags, TLC

VARIABLES
    db,            \* the SavedArticle table: rows in insertion order
    inflight,      \* bag of save_article requests between their existence check and their commit
    now,           \* the database clock that db.func.now() reads
    summaries_df,  \* the module-level DataFrame loaded from the CSV
    resp           \* the response most recently returned by a handler

vars == <<db, inflight, now, summaries_df, resp>>

(***************************************************************************)
(* Bounds of the model.                                                    *)
(***************************************************************************)
MaxRows == 2
MaxUrlLen == 17

\* ids of the registered users, and the id standing for a request without a
\* logged-in session
Users == {1, 2}
Anonymous == 0

(***************************************************************************)
(* Python string operations.                                               *)
(***************************************************************************)
Min(a, b) == IF a < b THEN a ELSE b
Max(a, b) == IF a > b THEN a ELSE b

UpperChars == <<"A","B","C","D","E","F","G","H","I","J","K","L","M",
                "N","O","P","Q","R","S","T","U","V","W","X","Y","Z">>
LowerChars == <<"a","b","c","d","e","f","g","h","i","j","k","l","m",
                "n","o","p","q","r","s","t","u","v","w","x","y","z">>

\* str.lower() on one character
LowerChar(c) ==
    IF \E i \in 1..Len(UpperChars) : UpperChars[i] = c
    THEN LowerChars[CHOOSE i \in 1..Len(UpperChars) : UpperChars[i] = c]
    ELSE c

\* str.lower()
Lower(s) == [i \in 1..Len(s) |-> LowerChar(s[i])]

\* s[start:] with Python's clamping of out-of-range indices
PySliceFrom(s, start) ==
    LET lo == IF start < 0 THEN Max(Len(s) + start, 0) ELSE Min(start, Len(s))
    IN  SubSeq(s, lo + 1, Len(s))

\* s[:stop] for stop >= 0
PySliceTo(s, stop) == SubSeq(s, 1, Min(stop, Len(s)))

\* t occurs in s as a contiguous run of characters
Contains(s, t) ==
    \E i \in 0..(Len(s) - Len(t)) : SubSeq(s, i + 1, i + Len(t)) = t

(***************************************************************************)
(* Outcomes of Python expressions: a value, or a raised exception.         *)
(***************************************************************************)
Ok(v) == [ok |-> TRUE, val |-> v]
Raised(e) == [ok |-> FALSE, exc |-> e]

\* dict.get(key, default)
DictGet(d, k, default) == IF k \in DOMAIN d THEN d[k] ELSE default

(***************************************************************************)
(* dateutil.parser.isoparse, restricted to the date-only forms YYYY and    *)
(* YYYY-MM-DD; every other string raises ValueError.                       *)
(***************************************************************************)
Digits == <<"0","1","2","3","4","5","6","7","8","9">>
IsDigit(c) == \E i \in 1..Len(Digits) : Digits[i] = c
DigitVal(c) == (CHOOSE i \in 1..Len(Digits) : Digits[i] = c) - 1

RECURSIVE NumVal(_)
NumVal(s) == IF s = <<>> THEN 0
             ELSE 10 * NumVal(SubSeq(s, 1, Len(s) - 1)) + DigitVal(s[Len(s)])

AllDigits(s) == \A i \in 1..Len(s) : IsDigit(s[i])

IsLeap(y) == (y % 4 = 0 /\ y % 100 # 0) \/ y % 400 = 0
DaysInMonth(y, m) ==
    IF m = 2 THEN (IF IsLeap(y) THEN 29 ELSE 28)
    ELSE IF m \in {4, 6, 9, 11} THEN 30 ELSE 31

IsoParse(s) ==
    IF Len(s) = 4 /\ AllDigits(s) /\ NumVal(s) >= 1
    THEN Ok([year |-> NumVal(s), month |-> 1, day |-> 1])
    ELSE IF /\ Len(s) = 10
            /\ s[5] = "-" /\ s[8] = "-"
            /\ AllDigits(SubSeq(s, 1, 4)) /\ AllDigits(SubSeq(s, 6, 7))
            /\ AllDigits(SubSeq(s, 9, 10))
    THEN LET year  == NumVal(SubSeq(s, 1, 4))
             month == NumVal(SubSeq(s, 6, 7))
             day   == NumVal(SubSeq(s, 9, 10))
         IN  IF year >= 1 /\ month \in 1..12 /\ day \in 1..DaysInMonth(year, month)
             THEN Ok([year |-> year, month |-> month, day |-> day])
             ELSE Raised("ValueError")
    ELSE Raised("ValueError")

\* `from datetime import datetime` binds the name datetime to the class
\* datetime.datetime; these are the attributes the code could look up on it.
\* timezone is an attribute of the module datetime, not of the class.
DatetimeAttributes == {"now", "utcnow", "today", "fromisoformat", "strptime",
                       "min", "max", "resolution"}

\* datetime.now(datetime.timezone.utc): the argument is evaluated first
UtcNow(clock) ==
    IF "timezone" \in DatetimeAttributes
    THEN Ok([utc |-> clock])
    ELSE Raised("AttributeError")

\* safe_parse_iso: the bare except clause runs UtcNow, whose own exception
\* leaves the function
safe_parse_iso(date_str, clock) ==
    LET parsed == IsoParse(date_str)
    IN  IF parsed.ok THEN parsed ELSE UtcNow(clock)

\* save_article, lines 266-270: `except Exception` around safe_parse_iso
ParsePublishedAt(date_str, clock) ==
    LET parsed == safe_parse_iso(date_str, clock)
    IN  IF parsed.ok THEN parsed ELSE UtcNow(clock)

(***************************************************************************)
(* services/sentiment_analyzer.py                                          *)
(***************************************************************************)
TruncateLen == 512

Neutral  == <<"n","e","u","t","r","a","l">>
Positive == <<"P","O","S","I","T","I","V","E">>

NeutralDefault == [sentiment |-> Neutral, confidence |-> 0]

\* What the transformers pipeline does when called: it raises, or returns
\* a list.  A well-formed list holds one dict with a label and a score.
PipelineOutcomes ==
    { Raised("RuntimeError"),
      Ok(<<[score |-> 731]>>),
      Ok(<<[label |-> Positive, score |-> 998]>>) }

\* How the classification capability behaves during one request: the model
\* cannot be loaded, or it loads and the call has one of the outcomes above
ClassifierBehaviours ==
    { [available |-> FALSE] } \cup
    { [available |-> TRUE, out |-> o] : o \in PipelineOutcomes }

\* SentimentAnalyzer.__init__: pipeline(...) loads the model or raises
SentimentAnalyzerInit(available) ==
    IF available THEN Ok("analyzer") ELSE Raised("OSError")

\* SentimentAnalyzer.analyze: out is what self.classifier(text[:512]) does
analyze(out) ==
    IF ~out.ok THEN NeutralDefault
    ELSE IF Len(out.val) = 0 THEN NeutralDefault
    ELSE IF ~({"label", "score"} \subseteq DOMAIN out.val[1]) THEN NeutralDefault
    ELSE [sentiment |-> Lower(out.val[1].label), confidence |-> out.val[1].score]

\* the argument analyze hands to the classifier
ClassifierInput(text) == PySliceTo(text, TruncateLen)

(***************************************************************************)
(* Form submissions to /save_article.  UrlLong is longer than 15          *)
(* characters, UrlShort is shorter.                                        *)
(***************************************************************************)
ArticleIdLen == 15

UrlLong  == <<"a",".","i","o","/","n","e","w","s","/","e","l","e","c","t","i","o","n","s">>
UrlShort == <<"c",".","i","o","/","x">>

Forms ==
    { [url |-> UrlLong, title |-> <<"E","l","e","c","t","i","o","n">>, description |-> <<>>,
       source |-> <<"b","b","c">>, published_at |-> <<"2","0","2","4","-","0","5","-","1","7">>],
      [url |-> UrlShort, title |-> <<"S","p","o","r","t","s">>, description |-> <<"C","u","p","_","f","i","n","a","l">>,
       source |-> <<"c","n","n">>, published_at |-> <<"2","0","2","4">>],
      [url |-> UrlLong, title |-> <<"E","l","e","c","t","i","o","n">>, description |-> <<>>,
       source |-> <<"b","b","c">>, published_at |-> <<"y","e","s","t","e","r","d","a","y">>] }

\* the slice taken one character short
ArticleIdOffByOne(url) == PySliceFrom(url, 0 - (ArticleIdLen - 1))

\* request.form['url'][-15:]
ArticleId(url) == PySliceFrom(url, 0 - ArticleIdLen)

\* f"{title} {description}"
TextToAnalyze(form) == form.title \o <<" ">> \o form.description

(***************************************************************************)
(* save_article up to its existence check (lines 263-294): parse the date, *)
(* build article_data, classify.  The result is article_data, or the       *)
(* response the handler returns early, or the exception that leaves it.    *)
(***************************************************************************)
JsonResponse(status, body) == [status |-> status, body |-> body]
\* an exception no handler catches: Flask answers 500 without a JSON body
Unhandled(e) == [status |-> 500, body |-> [error |-> e]]
\* login_required / the explicit check in dashboard: redirect to the login page
RedirectToLogin == [status |-> 302, body |-> [location |-> "login"]]

BuildArticleData(form, clock, clf) ==
    LET published_at == ParsePublishedAt(form.published_at, clock)
        analyzer == SentimentAnalyzerInit(clf.available)
        sentiment == analyze(clf.out)
    IN  IF ~published_at.ok THEN [kind |-> "raise", exc |-> published_at.exc]
        ELSE IF ~analyzer.ok
        THEN [kind |-> "return",
              response |-> JsonResponse(500,
                  [success |-> FALSE, message |-> "Sentiment analysis failed"])]
        ELSE [kind |-> "data",
              classified |-> ClassifierInput(TextToAnalyze(form)),
              article_data |->
                  [article_id   |-> ArticleId(form.url),
                   title        |-> form.title,
                   description  |-> form.description,
                   url          |-> form.url,
                   source       |-> form.source,
                   published_at |-> published_at.val,
                   sentiment    |-> DictGet(sentiment, "sentiment", Neutral),
                   confidence   |-> DictGet(sentiment, "confidence", 0)]]

\* the existence check without its user_id filter
ExistingAnyUser(table, user_id, article_id) ==
    { i \in 1..Len(table) : table[i].article_id = article_id }

\* SavedArticle.query.filter_by(user_id=..., article_id=...).first()
Existing(table, user_id, article_id) ==
    { i \in 1..Len(table) :
        table[i].user_id = user_id /\ table[i].article_id = article_id }

\* SavedArticle(user_id=current_user.id, **article_data) as the INSERT stores
\* it: id from the autoincrement key, added_at from db.func.now()
NewRow(table, user_id, article_data, clock) ==
    [id           |-> Len(table) + 1,
     user_id      |-> user_id,
     article_id   |-> article_data.article_id,
     title        |-> article_data.title,
     description  |-> article_data.description,
     url          |-> article_data.url,
     source       |-> article_data.source,
     published_at |-> article_data.published_at,
     added_at     |-> clock,
     sentiment    |-> article_data.sentiment,
     confidence   |-> article_data.confidence]

\* a failed commit whose row is not rolled back
CommitWithoutRollback(table, row, storage_ok) == Append(table, row)

\* db.session.add + db.session.commit, and db.session.rollback when the
\* commit raises: the table afterwards
CommitOrRollback(table, row, storage_ok) ==
    IF storage_ok THEN Append(table, row) ELSE table

(***************************************************************************)
(* personal_feed                                                           *)
(***************************************************************************)
\* SQL LIKE: % matches any run of characters, _ matches any one character
RECURSIVE LikeMatch(_, _)
LikeMatch(s, p) ==
    IF p = <<>> THEN s = <<>>
    ELSE IF Head(p) = "%"
    THEN LikeMatch(s, Tail(p)) \/ (s # <<>> /\ LikeMatch(Tail(s), p))
    ELSE /\ s # <<>>
         /\ (Head(p) = "_" \/ Head(p) = Head(s))
         /\ LikeMatch(Tail(s), Tail(p))

\* column.ilike(pattern)
ILike(s, pattern) == LikeMatch(Lower(s), Lower(pattern))

\* f'%{search_query}%'
SearchPattern(search_query) == <<"%">> \o search_query \o <<"%">>

\* the WHERE clause of the feed query
FeedFilter(table, user_id, search_query) ==
    { i \in 1..Len(table) :
        /\ table[i].user_id = user_id
        /\ \/ search_query = <<>>
           \/ ILike(table[i].title, SearchPattern(search_query))
           \/ ILike(table[i].description, SearchPattern(search_query)) }

\* the rows ordered by added_at ascending
OrderByAddedAtAsc(table, selected) ==
    { [k \in 1..Cardinality(selected) |-> table[f[k]]] :
        f \in { g \in [1..Cardinality(selected) -> selected] :
                  /\ \A a, b \in 1..Cardinality(selected) : a # b => g[a] # g[b]
                  /\ \A a, b \in 1..Cardinality(selected) :
                        a < b => table[g[a]].added_at <= table[g[b]].added_at } }

\* ORDER BY added_at DESC: every arrangement of the selected rows in which
\* added_at never increases; rows with equal added_at come in any order
OrderByAddedAtDesc(table, selected) ==
    { [k \in 1..Cardinality(selected) |-> table[f[k]]] :
        f \in { g \in [1..Cardinality(selected) -> selected] :
                  /\ \A a, b \in 1..Cardinality(selected) : a # b => g[a] # g[b]
                  /\ \A a, b \in 1..Cardinality(selected) :
                        a < b => table[g[a]].added_at >= table[g[b]].added_at } }

SearchTerms == { <<>>, <<"e","l","e","c","t","i","o","n">>, <<"_">> }

(***************************************************************************)
(* The summary dataset: pd.read_csv at import time, then home,             *)
(* search_summaries and dashboard.                                         *)
(***************************************************************************)
LoadedCsv ==
    [columns |-> <<"title", "summary", "sentiment">>,
     data |-> << [title |-> <<"E","l","e","c","t","i","o","n">>, summary |-> <<"V","o","t","e","s">>, sentiment |-> <<"n","e","u","t","r","a","l">>],
                 [title |-> <<"S","p","o","r","t","s">>, summary |-> <<"C","u","p">>, sentiment |-> <<"p","o","s","i","t","i","v","e">>] >>]

\* df[col] = df.index   (the RangeIndex 0, 1, ...)
AssignIndexColumn(df, col) ==
    [columns |-> IF \E i \in 1..Len(df.columns) : df.columns[i] = col
                 THEN df.columns ELSE Append(df.columns, col),
     data |-> [i \in 1..Len(df.data) |-> (col :> (i - 1)) @@ df.data[i]]]

\* df.to_dict(orient='records')
ToDictRecords(df) == df.data

\* Series.str.contains(query, case=False), for queries without regular
\* expression metacharacters
StrContainsNoCase(s, query) == Contains(Lower(s), Lower(query))

SummaryQueries == { <<>>, <<"c","u","p">> }

Init ==
    /\ db = <<>>
    /\ inflight = EmptyBag
    /\ now = 0
    /\ summaries_df = LoadedCsv
    /\ resp = [endpoint |-> "none"]

\* the table has room for one more row besides those of the requests in flight
HasRoom == Len(db) + BagCardinality(inflight) < MaxRows

Respond(endpoint, user, req, r) ==
    resp' = [endpoint |-> endpoint, user |-> user, req |-> req,
             status |-> r.status, body |-> r.body]

\* save_article, lines 263-306: everything up to and including the
\* existence check
SaveArticleCheck(user, form, clf) ==
    /\ LET req == [form |-> form, clf |-> clf]
           built == BuildArticleData(form, now, clf)
       IN  IF user = Anonymous
           THEN /\ Respond("save_article", user, <<>>, RedirectToLogin)
                /\ UNCHANGED inflight
           ELSE IF built.kind = "raise"
           THEN /\ Respond("save_article", user, req, Unhandled(built.exc))
                /\ UNCHANGED inflight
           ELSE IF built.kind = "return"
           THEN /\ Respond("save_article", user, req, built.response)
                /\ UNCHANGED inflight
           ELSE IF Existing(db, user, built.article_data.article_id) # {}
           THEN /\ Respond("save_article", user, req,
                       JsonResponse(409, [success |-> FALSE,
                                          message |-> "Article already in your feed"]))
                /\ UNCHANGED inflight
           ELSE /\ HasRoom
                /\ inflight' = inflight (+) SetToBag({[user |-> user, req |-> req,
                                   article_data |-> built.article_data]})
                /\ UNCHANGED resp
    /\ UNCHANGED <<db, now, summaries_df>>

\* save_article, lines 308-329: insert and commit, or roll back
SaveArticleCommit(r, storage_ok) ==
    /\ BagIn(r, inflight)
    /\ LET new_article == NewRow(db, r.user, r.article_data, now)
       IN  /\ db' = CommitOrRollback(db, new_article, storage_ok)
           /\ IF storage_ok
              THEN Respond("save_article", r.user, r.req,
                       JsonResponse(200,
                           [success    |-> TRUE,
                            message    |-> "Article saved to your feed!",
                            sentiment  |-> new_article.sentiment,
                            confidence |-> new_article.confidence,
                            article_id |-> new_article.article_id]))
              ELSE Respond("save_article", r.user, r.req,
                       JsonResponse(500, [success |-> FALSE,
                                          message |-> "Database error"]))
    /\ inflight' = inflight (-) SetToBag({r})
    /\ UNCHANGED <<now, summaries_df>>

\* The database clock advances.  Timestamps are observed only through their
\* order, so the ticks between two inserts are merged into one.
Tick ==
    /\ db # <<>>
    /\ now = db[Len(db)].added_at
    /\ now' = now + 1
    /\ UNCHANGED <<db, inflight, summaries_df, resp>>

\* personal_feed
PersonalFeed(user, search_query) ==
    /\ IF user = Anonymous
       THEN Respond("personal_feed", user, <<>>, RedirectToLogin)
       ELSE \E articles \in OrderByAddedAtDesc(db, FeedFilter(db, user, search_query)) :
               Respond("personal_feed", user, [search |-> search_query],
                   [status |-> 200,
                    body |-> [articles |-> articles, search_query |-> search_query]])
    /\ UNCHANGED <<db, inflight, now, summaries_df>>

\* home
Home(user) ==
    /\ IF user = Anonymous
       THEN Respond("home", user, <<>>, RedirectToLogin)
       ELSE Respond("home", user, <<>>,
                [status |-> 200, body |-> [data |-> ToDictRecords(summaries_df)]])
    /\ UNCHANGED <<db, inflight, now, summaries_df>>

\* search_summaries
SearchSummaries(user, query) ==
    /\ IF user = Anonymous
       THEN Respond("search_summaries", user, <<>>, RedirectToLogin)
       ELSE LET records == ToDictRecords(summaries_df)
                data == IF query # <<>>
                        THEN SelectSeq(records,
                                 LAMBDA r : \/ StrContainsNoCase(r.title, query)
                                            \/ StrContainsNoCase(r.summary, query))
                        ELSE <<>>
            IN  Respond("search_summaries", user, [query |-> query],
                    [status |-> 200, body |-> [data |-> data]])
    /\ UNCHANGED <<db, inflight, now, summaries_df>>

\* dashboard
Dashboard(user) ==
    /\ IF user = Anonymous
       THEN /\ Respond("dashboard", user, <<>>, RedirectToLogin)
            /\ UNCHANGED summaries_df
       ELSE /\ summaries_df' = AssignIndexColumn(summaries_df, "id")
            /\ Respond("dashboard", user, <<>>,
                   [status |-> 200, body |-> [data |-> ToDictRecords(summaries_df')]])
    /\ UNCHANGED <<db, inflight, now>>

Next ==
    \/ \E user \in Users \cup {Anonymous}, form \in Forms, clf \in ClassifierBehaviours :
          SaveArticleCheck(user, form, clf)
    \/ \E r \in BagToSet(inflight), storage_ok \in BOOLEAN : SaveArticleCommit(r, storage_ok)
    \/ Tick
    \/ \E user \in Users \cup {Anonymous}, q \in SearchTerms : PersonalFeed(user, q)
    \/ \E user \in Users \cup {Anonymous} : Home(user)
    \/ \E user \in Users \cup {Anonymous}, q \in SummaryQueries : SearchSummaries(user, q)
    \/ \E user \in Users \cup {Anonymous} : Dashboard(user)

Spec == Init /\ [][Next]_vars

(***************************************************************************)
(* save_article alone, with its requests interleaved.                      *)
(***************************************************************************)
NextSave ==
    \/ \E user \in Users \cup {Anonymous}, form \in Forms, clf \in ClassifierBehaviours :
          SaveArticleCheck(user, form, clf)
    \/ \E r \in BagToSet(inflight), storage_ok \in BOOLEAN : SaveArticleCommit(r, storage_ok)

SpecSave == Init /\ [][NextSave]_vars

(***************************************************************************)
(* save_article alone, called in sequence: a call is accepted only when no *)
(* other call is between its existence check and its commit.               *)
(***************************************************************************)
NextSeq ==
    \/ /\ inflight = EmptyBag
       /\ \E user \in Users \cup {Anonymous}, form \in Forms, clf \in ClassifierBehaviours :
             SaveArticleCheck(user, form, clf)
    \/ \E r \in BagToSet(inflight), storage_ok \in BOOLEAN : SaveArticleCommit(r, storage_ok)

SpecSeq == Init /\ [][NextSeq]_vars

(***************************************************************************)
(* personal_feed as a query: the table is any table that up to MaxRows     *)
(* calls of save_article made in sequence leave behind, and the only       *)
(* handler is personal_feed.                                               *)
(***************************************************************************)
\* the rows save_article can insert after table t, at clock value c
InsertableRows(t, c) ==
    { NewRow(t, user, BuildArticleData(form, c, clf).article_data, c) :
        user \in Users,
        form \in { f \in Forms : IsoParse(f.published_at).ok },
        clf \in { b \in ClassifierBehaviours : b.available } }

RECURSIVE TablesOfLen(_)
TablesOfLen(n) ==
    IF n = 0 THEN { <<>> }
    ELSE UNION { { Append(t, row) :
                     row \in { r \in UNION { InsertableRows(t, c) :
                                       c \in IF t = <<>> THEN {0}
                                             ELSE {t[Len(t)].added_at, t[Len(t)].added_at + 1} } :
                                Existing(t, r.user_id, r.article_id) = {} } } :
                 t \in TablesOfLen(n - 1) }

InitQuery ==
    /\ db \in UNION { TablesOfLen(n) : n \in 0..MaxRows }
    /\ inflight = EmptyBag
    /\ now = IF db = <<>> THEN 0 ELSE db[Len(db)].added_at
    /\ summaries_df = LoadedCsv
    /\ resp = [endpoint |-> "none"]

NextQuery ==
    \E user \in Users \cup {Anonymous}, q \in SearchTerms : PersonalFeed(user, q)

SpecQuery == InitQuery /\ [][NextQuery]_vars

(***************************************************************************)
(* The derived article identifier as a function of the url: the urls are   *)
(* the substrings of a url of MaxUrlLen characters.                        *)
(***************************************************************************)
UrlChars == <<"h","t","p",":","/","a",".","i","o","n","e","w","s","l","c","x","y","z","q","r">>
BaseUrl == [i \in 1..MaxUrlLen |-> UrlChars[((i - 1) % Len(UrlChars)) + 1]]
Urls == { SubSeq(BaseUrl, i, j) : i \in 1..(MaxUrlLen + 1), j \in 0..MaxUrlLen }

\* save_article, line 273, on its own
DeriveArticleId(url) ==
    /\ resp' = [endpoint |-> "article_id", url |-> url, article_id |-> ArticleId(url)]
    /\ UNCHANGED <<db, inflight, now, summaries_df>>

NextId == \E url \in Urls : DeriveArticleId(url)

SpecId == Init /\ [][NextId]_vars

(***************************************************************************)
(* Properties.                                                             *)
(***************************************************************************)
IsSaveResponse == resp.endpoint = "save_article" /\ resp.user \in Users
IsFeedResponse == resp.endpoint = "personal_feed" /\ resp.status = 200
RowsOf(user_id, article_id) ==
    Cardinality({ i \in 1..Len(db) :
                    db[i].user_id = user_id /\ db[i].article_id = article_id })
SavedOk == resp.status = 200
Conflict == resp.status = 409
StorageFailure == resp.status = 500 /\ resp.body = [success |-> FALSE, message |-> "Database error"]
ClassificationFailure ==
    resp.status = 500 /\ resp.body = [success |-> FALSE, message |-> "Sentiment analysis failed"]
DateParses(form) == IsoParse(form.published_at).ok
\* the classification failed: the model could not be loaded, or the call
\* raised or returned something other than a label with a score
ClassificationFailed(clf) ==
    \/ ~clf.available
    \/ ~clf.out.ok
    \/ Len(clf.out.val) = 0
    \/ ~({"label", "score"} \subseteq DOMAIN clf.out.val[1])
Last15OrWhole(url) ==
    IF Len(url) >= 15 THEN [i \in 1..15 |-> url[Len(url) - 15 + i]] ELSE url
SetOfSeq(q) == { q[k] : k \in 1..Len(q) }

\* C1: two save_article requests for the same user and the same derived
\* article_id, interleaved in any way, leave exactly one row for that
\* (user_id, article_id) in the table.
C1_ConcurrentSaveOneRow ==
    \A i, j \in 1..Len(db) :
        (db[i].user_id = db[j].user_id /\ db[i].article_id = db[j].article_id) => i = j

\* C2: with calls made in sequence, a call with a parseable date and a
\* loadable classifier answers 200 when the user has no row for the derived
\* id and the storage works, and 409 when the user has one; so the first
\* call succeeds, every later call is a Conflict, and the table never holds
\* more than one row for a (user_id, article_id).
C2_SaveTwiceOneRow ==
    /\ \A u \in Users, f \in Forms : RowsOf(u, ArticleId(f.url)) <= 1
    /\ IsSaveResponse =>
          /\ (SavedOk \/ Conflict) => RowsOf(resp.user, ArticleId(resp.req.form.url)) = 1
          /\ (DateParses(resp.req.form) /\ resp.req.clf.available)
                => (SavedOk \/ Conflict \/ StorageFailure)
          /\ StorageFailure => RowsOf(resp.user, ArticleId(resp.req.form.url)) = 0

\* a second call for a url of at least 15 characters was answered 409 and
\* the user's row is there once
C2_Witness ==
    /\ IsSaveResponse /\ Conflict
    /\ Len(resp.req.form.url) >= 15
    /\ RowsOf(resp.user, ArticleId(resp.req.form.url)) = 1

\* C3: when the classification fails in save_article, the response is the
\* classification failure (500) and no row with the defaulted sentiment
\* is in the table.
C3_ClassificationFailureAborts ==
    /\ (IsSaveResponse /\ DateParses(resp.req.form) /\ ClassificationFailed(resp.req.clf))
          => (resp.status = 500 /\ resp.body.success = FALSE)
    /\ \A i \in 1..Len(db) :
          ~(db[i].sentiment = Neutral /\ db[i].confidence = 0)

\* C4: a malformed published_at never makes save_article fail: no
\* exception leaves the handler, and the request goes on to classification,
\* the existence check and the insert.
C4_MalformedDateRecovered ==
    (IsSaveResponse /\ ~DateParses(resp.req.form))
        => /\ "error" \notin DOMAIN resp.body
           /\ resp.req.clf.available => (SavedOk \/ Conflict \/ StorageFailure)

\* C5: a step in which save_article returns success appends exactly one row
\* to the table and leaves the earlier rows as they were; every other step
\* of save_article leaves the table unchanged.
C5_SaveFrameEffect ==
    [][ IF /\ resp'.endpoint = "save_article"
           /\ resp'.status = 200
           /\ \/ BagCardinality(inflight') < BagCardinality(inflight)
              \/ (inflight' = inflight /\ resp' # resp)
        THEN /\ Len(db') = Len(db) + 1
             /\ SubSeq(db', 1, Len(db)) = db
             /\ db'[Len(db')].user_id = resp'.user
             /\ db'[Len(db')].article_id = resp'.body.article_id
        ELSE db' = db ]_vars

\* a storage failure was reported while an earlier row is in the table
C5_Witness ==
    /\ IsSaveResponse /\ StorageFailure
    /\ Len(db) = 1

\* C6: the derived identifier is the last 15 characters of a url of at
\* least 15 characters and the whole url when it is shorter.
C6_ArticleIdDefined ==
    resp.endpoint = "article_id" => resp.article_id = Last15OrWhole(resp.url)

\* the identifier of a non-empty url shorter than 15 characters was derived
C6_Witness ==
    /\ resp.endpoint = "article_id"
    /\ Len(resp.url) \in 1..14
    /\ resp.article_id = resp.url

\* C7: the summary dataset always equals the value loaded at start.
C7_DatasetNeverMutated == summaries_df = LoadedCsv

\* C8 as stated: the feed without a search term holds exactly the user's
\* rows, and of any two of them the one saved later comes first.
C8_SavedLaterFirst ==
    (IsFeedResponse /\ resp.req.search = <<>>) =>
        LET arts == resp.body.articles
        IN  /\ Len(arts) = Cardinality({ i \in 1..Len(db) : db[i].user_id = resp.user })
            /\ SetOfSeq(arts) = { db[i] : i \in { k \in 1..Len(db) : db[k].user_id = resp.user } }
            /\ \A a, b \in 1..Len(arts) : a < b => arts[a].id > arts[b].id

\* C8: the feed without a search term holds exactly the user's rows, each
\* once, and of any two of them with different added_at the one with the
\* later added_at comes first.
C8_FeedDescendingAddedAt ==
    (IsFeedResponse /\ resp.req.search = <<>>) =>
        LET arts == resp.body.articles
        IN  /\ Len(arts) = Cardinality({ i \in 1..Len(db) : db[i].user_id = resp.user })
            /\ SetOfSeq(arts) = { db[i] : i \in { k \in 1..Len(db) : db[k].user_id = resp.user } }
            /\ \A a, b \in 1..Len(arts) :
                  (a < b /\ arts[a].added_at # arts[b].added_at)
                      => arts[a].added_at > arts[b].added_at

\* the feed returned two rows saved at different times
C8_Witness ==
    /\ IsFeedResponse /\ resp.req.search = <<>>
    /\ Len(resp.body.articles) = 2
    /\ resp.body.articles[1].added_at > resp.body.articles[2].added_at

\* C9: the feed with a search term holds exactly the user's rows whose
\* title or description contains the term, compared without regard to
\* case, as a literal substring, most recently added first.
C9_FeedLiteralSubstring ==
    (IsFeedResponse /\ resp.req.search # <<>>) =>
        LET arts == resp.body.articles
            term == Lower(resp.req.search)
        IN  /\ SetOfSeq(arts) =
                   { db[i] : i \in { k \in 1..Len(db) :
                       /\ db[k].user_id = resp.user
                       /\ \/ Contains(Lower(db[k].title), term)
                          \/ Contains(Lower(db[k].description), term) } }
            /\ \A a, b \in 1..Len(arts) : a < b => arts[a].added_at >= arts[b].added_at

\* C10: obtaining and using the adapter never fails: when the capability is
\* unavailable, raises or returns malformed output the result is the
\* neutral default, and otherwise it is the lower-cased label with the
\* score as returned.
C10_AdapterNeverPropagates ==
    (IsSaveResponse /\ DateParses(resp.req.form)) =>
        /\ ~ClassificationFailure
        /\ SavedOk =>
              IF ClassificationFailed(resp.req.clf)
              THEN resp.body.sentiment = Neutral /\ resp.body.confidence = 0
              ELSE /\ resp.body.sentiment = Lower(resp.req.clf.out.val[1].label)
                   /\ resp.body.confidence = resp.req.clf.out.val[1].score

====
